---- MODULE Spec2Model ----
(***************************************************************************)
(* A model of pradyunsg/did: the period resolution of src/did/cli.py and   *)
(* the bounded timeline walkers of src/did/lookups.py (GitHub events and   *)
(* Discourse user actions).                                                *)
(*                                                                         *)
(* Three specifications share the variables:                               *)
(*   SpecCal  - get_this_period / get_last_period applied to a date        *)
(*   SpecGH   - _github_events walking one user's events feed              *)
(*   SpecDisc - lookup_discourse walking one user's actions feed           *)
(***************************************************************************)
EXTENDS Integers, Sequences, FiniteSets, TLC

(***************************************************************************)
(* Bounds of the model.                                                    *)
(***************************************************************************)
\* calendar years from which `today` is drawn
FirstYear == 2020
LastYear == 2022
\* the walkers' since / until are days 0..MaxDay
MaxDay == 2
\* timestamps of one day that differ only in their time of day
TicksPerDay == 2
\* items the GitHub events feed may deliver in one walk
MaxEvents == 3
\* items a page of the GitHub feed holds at most
GhPageSize == 2
\* actions the Discourse provider holds at most
MaxActions == 3
\* actions of one full page of the Discourse provider
DiscPageSize == 2
\* page requests of one Discourse walk that the model follows
MaxRequests == 4
\* actions of a Discourse feed whose tallies are followed
MaxTallied == 5
\* github sources of a configuration
MaxGithub == 2
\* events the feed of one user holds in a run of the configuration
MaxRunEvents == 2
\* items of the directory of a local-git source
MaxItems == 3
\* events of a GitHub feed that holds every kind of event
MaxKindEvents == 2

(***************************************************************************)
(* datetime.date: a date is a record of year, month and day; arithmetic    *)
(* goes through the proleptic Gregorian ordinal, as in the library.        *)
(***************************************************************************)
NoDate == [year |-> 0, month |-> 0, day |-> 0]

IsLeap(y) == (y % 4 = 0) /\ ((y % 100 # 0) \/ (y % 400 = 0))

DaysInMonth(y, m) ==
    CASE m \in {1, 3, 5, 7, 8, 10, 12} -> 31
      [] m \in {4, 6, 9, 11} -> 30
      [] OTHER -> IF IsLeap(y) THEN 29 ELSE 28

\* monthrange without the leap day
MonthRange_NoLeap(y, m) == IF m = 2 THEN 28 ELSE DaysInMonth(y, m)

\* calendar.monthrange(year, month)[1]
MonthRange(y, m) == DaysInMonth(y, m)

RECURSIVE DaysBeforeMonth(_, _)
DaysBeforeMonth(y, m) ==
    IF m <= 1 THEN 0 ELSE DaysBeforeMonth(y, m - 1) + DaysInMonth(y, m - 1)

DaysBeforeYear(y) ==
    (y - 1) * 365 + ((y - 1) \div 4) - ((y - 1) \div 100) + ((y - 1) \div 400)

\* date(year, month, day) raises ValueError outside the calendar
ValidDate(y, m, d) ==
    /\ y \in 1..9999
    /\ m \in 1..12
    /\ d \in 1..DaysInMonth(y, m)

MkDate(y, m, d) == [year |-> y, month |-> m, day |-> d]

ToOrdinal(dt) ==
    DaysBeforeYear(dt.year) + DaysBeforeMonth(dt.year, dt.month) + dt.day

FromOrdinal(n) ==
    LET n0 == n - 1
        n400 == n0 \div 146097
        r400 == n0 % 146097
        n100 == r400 \div 36524
        r100 == r400 % 36524
        n4 == r100 \div 1461
        r4 == r100 % 1461
        n1 == r4 \div 365
        r1 == r4 % 365
        y == n400 * 400 + 1 + n100 * 100 + n4 * 4 + n1
        leap == (n1 = 3) /\ ((n4 # 24) \/ (n100 = 3))
        m0 == (r1 + 50) \div 32
        p0 == DaysBeforeMonth(IF leap THEN 2020 ELSE 2021, m0)
        m == IF p0 > r1 THEN m0 - 1 ELSE m0
        p == IF p0 > r1
             THEN DaysBeforeMonth(IF leap THEN 2020 ELSE 2021, m0 - 1)
             ELSE p0
    IN  IF n1 = 4 \/ n100 = 4
        THEN MkDate(y - 1, 12, 31)
        ELSE MkDate(y, m, r1 - p + 1)

\* date.weekday(): Monday is 0
Weekday(dt) == (ToOrdinal(dt) + 6) % 7

\* date - timedelta(days=n)
MinusDays(dt, n) == FromOrdinal(ToOrdinal(dt) - n)

\* d1 <= d2 on dates
DateLeq(d1, d2) == ToOrdinal(d1) <= ToOrdinal(d2)

\* strftime("%W"): week of the year, weeks starting on Monday
WeekOfYear(dt) ==
    LET yday == DaysBeforeMonth(dt.year, dt.month) + dt.day - 1
    IN  (yday + 7 - Weekday(dt)) \div 7

Periods == {"week", "month", "quarter", "year"}

\* the dates `today` is drawn from
Todays ==
    { dt \in [year : FirstYear..LastYear, month : 1..12, day : 1..31] :
        ValidDate(dt.year, dt.month, dt.day) }

(***************************************************************************)
(* The value of a call: the returned (period_ref, start_date, end_date),   *)
(* or the exception that left the function.                                *)
(***************************************************************************)
NoLabel == [fmt |-> "none", n |-> 0, year |-> 0]

Returned(label, start, end) ==
    [raised |-> "none", label |-> label, start |-> start, end |-> end]

Raised(exc) ==
    [raised |-> exc, label |-> NoLabel, start |-> NoDate, end |-> NoDate]

NoResult == Raised("not called")

\* start_date.strftime(...) of each branch
WeekLabel(start) == [fmt |-> "week %W of %Y", n |-> WeekOfYear(start), year |-> start.year]
MonthLabel(start) == [fmt |-> "%B %Y", n |-> start.month, year |-> start.year]
QuarterLabel(q, start) == [fmt |-> "Q %Y", n |-> q, year |-> start.year]
YearLabel(start) == [fmt |-> "%Y", n |-> 0, year |-> start.year]

\* this_week with the start of the span one day early (a Sunday)
this_week_start_on_sunday(today) ==
    LET start_date == MinusDays(today, Weekday(today) + 1)
    IN  Returned(WeekLabel(start_date), start_date, today)

\* get_this_period, one operator per branch of the if / elif chain
this_week(today) ==
    LET start_date == MinusDays(today, Weekday(today))
    IN  Returned(WeekLabel(start_date), start_date, today)

this_month(today) ==
    LET start_date == MinusDays(today, today.day - 1)
    IN  Returned(MonthLabel(start_date), start_date, today)

this_quarter(today) ==
    LET quarter_number == (today.month - 1) \div 3
        quarter_start_month == quarter_number * 3 + 1
    IN  IF ValidDate(today.year, quarter_start_month, 1)
        THEN LET start_date == MkDate(today.year, quarter_start_month, 1)
             IN  Returned(QuarterLabel(quarter_number + 1, start_date),
                          start_date, today)
        ELSE Raised("ValueError")

this_year(today) ==
    IF ValidDate(today.year, 1, 1)
    THEN LET start_date == MkDate(today.year, 1, 1)
         IN  Returned(YearLabel(start_date), start_date, today)
    ELSE Raised("ValueError")

get_this_period(today, period) ==
    CASE period = "week" -> this_week(today)
      [] period = "month" -> this_month(today)
      [] period = "quarter" -> this_quarter(today)
      [] period = "year" -> this_year(today)
      [] OTHER -> Raised("AssertionError")

previous_quarter(ref) ==
    IF ref.month < 4 THEN MkDate(ref.year - 1, 12, 31)
    ELSE IF ref.month < 7 THEN MkDate(ref.year, 3, 31)
    ELSE IF ref.month < 10 THEN MkDate(ref.year, 6, 30)
    ELSE MkDate(ref.year, 9, 30)

\* last_week with the end of the span one day late (a Monday)
last_week_end_on_monday(today) ==
    LET end_date == MinusDays(today, Weekday(today))
        start_date == MinusDays(end_date, 6)
    IN  Returned(WeekLabel(start_date), start_date, end_date)

\* get_last_period, one operator per branch of the if / elif chain
last_week(today) ==
    LET end_date == MinusDays(today, Weekday(today) + 1)
        start_date == MinusDays(end_date, 6)
    IN  Returned(WeekLabel(start_date), start_date, end_date)

\* last_month with the start of the span one day early
last_month_start_one_early(today) ==
    LET end_date == MinusDays(today, today.day)
        month_days_count == MonthRange(end_date.year, end_date.month)
        start_date == MinusDays(end_date, month_days_count)
    IN  Returned(MonthLabel(start_date), start_date, end_date)

last_month(today) ==
    LET end_date == MinusDays(today, today.day)
        month_days_count == MonthRange(end_date.year, end_date.month)
        start_date == MinusDays(end_date, month_days_count - 1)
    IN  Returned(MonthLabel(start_date), start_date, end_date)

last_quarter(today) ==
    LET end_date == previous_quarter(today)
    IN  IF ValidDate(end_date.year, end_date.month - 3, 1)
        THEN LET start_date == MkDate(end_date.year, end_date.month - 3, 1)
             IN  Returned(QuarterLabel((start_date.month \div 3) + 1, start_date),
                          start_date, end_date)
        ELSE Raised("ValueError")

last_year(today) ==
    IF ValidDate(today.year - 1, 1, 1)
    THEN LET start_date == MkDate(today.year - 1, 1, 1)
             end_date == MinusDays(MkDate(today.year, 1, 1), 1)
         IN  Returned(YearLabel(start_date), start_date, end_date)
    ELSE Raised("ValueError")

get_last_period(today, period) ==
    CASE period = "week" -> last_week(today)
      [] period = "month" -> last_month(today)
      [] period = "quarter" -> last_quarter(today)
      [] period = "year" -> last_year(today)
      [] OTHER -> Raised("AssertionError")

(***************************************************************************)
(* str: a text is the sequence of its characters.                          *)
(***************************************************************************)
UpperCase == <<"A", "B", "C", "D", "E", "F", "G", "H", "I", "J", "K", "L", "M",
               "N", "O", "P", "Q", "R", "S", "T", "U", "V", "W", "X", "Y", "Z">>
LowerCase == <<"a", "b", "c", "d", "e", "f", "g", "h", "i", "j", "k", "l", "m",
               "n", "o", "p", "q", "r", "s", "t", "u", "v", "w", "x", "y", "z">>
DigitChars == <<"0", "1", "2", "3", "4", "5", "6", "7", "8", "9">>

LowerChar(c) ==
    IF \E i \in 1..Len(UpperCase) : UpperCase[i] = c
    THEN LowerCase[CHOOSE i \in 1..Len(UpperCase) : UpperCase[i] = c]
    ELSE c

UpperChar(c) ==
    IF \E i \in 1..Len(LowerCase) : LowerCase[i] = c
    THEN UpperCase[CHOOSE i \in 1..Len(LowerCase) : LowerCase[i] = c]
    ELSE c

\* str.lower, str.upper, str.capitalize
Lower(text) == [i \in 1..Len(text) |-> LowerChar(text[i])]
Upper(text) == [i \in 1..Len(text) |-> UpperChar(text[i])]
Capitalize(text) ==
    [i \in 1..Len(text) |-> IF i = 1 THEN UpperChar(text[i]) ELSE LowerChar(text[i])]

IsDigit(c) == \E i \in 1..Len(DigitChars) : DigitChars[i] = c
DigitValue(c) == (CHOOSE i \in 1..Len(DigitChars) : DigitChars[i] = c) - 1

\* str.isnumeric
IsNumeric(text) == Len(text) > 0 /\ \A i \in 1..Len(text) : IsDigit(text[i])

\* int(text) of a numeric text
RECURSIVE IntOf(_)
IntOf(text) ==
    IF Len(text) = 0 THEN 0
    ELSE IntOf(SubSeq(text, 1, Len(text) - 1)) * 10 + DigitValue(text[Len(text)])

\* "-" in text
HasDash(text) == \E i \in 1..Len(text) : text[i] = "-"

\* text.partition("-"): what is before the first "-" and what is after it
Partition(text) ==
    IF HasDash(text)
    THEN LET at == CHOOSE i \in 1..Len(text) :
                       /\ text[i] = "-"
                       /\ \A j \in 1..(i - 1) : text[j] # "-"
         IN  [head |-> SubSeq(text, 1, at - 1), tail |-> SubSeq(text, at + 1, Len(text))]
    ELSE [head |-> text, tail |-> <<>>]

\* calendar.month_abbr[1..12], lowercased: the keys of MONTHS_TO_NUMBER in
\* the order of their numbers
MonthAbbr == << <<"j", "a", "n">>, <<"f", "e", "b">>, <<"m", "a", "r">>,
               <<"a", "p", "r">>, <<"m", "a", "y">>, <<"j", "u", "n">>,
               <<"j", "u", "l">>, <<"a", "u", "g">>, <<"s", "e", "p">>,
               <<"o", "c", "t">>, <<"n", "o", "v">>, <<"d", "e", "c">> >>

\* month in MONTHS_TO_NUMBER, MONTHS_TO_NUMBER[month]
InMonthsToNumber(month) == \E n \in 1..Len(MonthAbbr) : MonthAbbr[n] = month
MONTHS_TO_NUMBER(month) == CHOOSE n \in 1..Len(MonthAbbr) : MonthAbbr[n] = month

QuarterNames == { <<"q", "1">>, <<"q", "2">>, <<"q", "3">>, <<"q", "4">> }

\* the value of convert_to_range: the (start, end) it returns, or the
\* exception that left it
Range(start, end) == Returned(NoLabel, start, end)

\* convert_to_range, one operator per form
range_of_year(period) ==
    LET year == IntOf(period)
    IN  IF ~(year > 2000) THEN Raised("AssertionError")
        ELSE LET last_year_day == MonthRange(year, 12)
             IN  IF ValidDate(year, 1, 1) /\ ValidDate(year, 12, last_year_day)
                 THEN Range(MkDate(year, 1, 1), MkDate(year, 12, last_year_day))
                 ELSE Raised("ValueError")

range_of_quarter(period) ==
    LET quarter == Lower(Partition(period).head)
        year == Partition(period).tail
    IN  IF quarter \notin QuarterNames THEN Raised("AssertionError")
        ELSE IF ~IsNumeric(year) THEN Raised("AssertionError")
        ELSE LET quarter_n == DigitValue(quarter[2])
                 year_n == IntOf(year)
                 first_qmonth == (3 * (quarter_n - 1)) + 1
                 last_qmonth == 3 * quarter_n
                 last_qday == MonthRange(year_n, last_qmonth)
             IN  IF ValidDate(year_n, first_qmonth, 1)
                    /\ ValidDate(year_n, last_qmonth, last_qday)
                 THEN Range(MkDate(year_n, first_qmonth, 1),
                            MkDate(year_n, last_qmonth, last_qday))
                 ELSE Raised("ValueError")

range_of_month(period) ==
    LET month == Partition(period).head
        year == Partition(period).tail
    IN  IF ~InMonthsToNumber(month) THEN Raised("AssertionError")
        ELSE IF ~IsNumeric(year) THEN Raised("AssertionError")
        ELSE LET month_n == MONTHS_TO_NUMBER(month)
                 year_n == IntOf(year)
                 month_days_count == MonthRange(year_n, month_n)
             IN  IF ValidDate(year_n, month_n, 1)
                    /\ ValidDate(year_n, month_n, month_days_count)
                 THEN Range(MkDate(year_n, month_n, 1),
                            MkDate(year_n, month_n, month_days_count))
                 ELSE Raised("ValueError")

convert_to_range(period) ==
    IF Len(period) = 4 /\ IsNumeric(period) THEN range_of_year(period)
    ELSE IF Len(period) = 7 /\ Len(Lower(period)) > 0 /\ Lower(period)[1] = "q"
            /\ HasDash(period)
         THEN range_of_quarter(period)
    ELSE IF Len(period) = 8 /\ HasDash(period) THEN range_of_month(period)
    ELSE Raised("AssertionError")

(***************************************************************************)
(* Timestamps of the providers.  A timestamp is a day and a time of day;   *)
(* datetime.strptime(s, FORMAT).date() keeps the day.                      *)
(***************************************************************************)
Days == 0..MaxDay
Stamps == 0..((MaxDay + 1) * TicksPerDay - 1)
NoDay == -1

StrptimeDate(stamp) == stamp \div TicksPerDay

\* if (date.today() - until) > timedelta(days=90)
HorizonDays == 90

\* BeyondHorizon that already gives up at the horizon itself
BeyondHorizon_AtHorizon(today_, until_) == (today_ - until_) >= HorizonDays

BeyondHorizon(today_, until_) == (today_ - until_) > HorizonDays

(***************************************************************************)
(* _github_events: the events of the feed.  An event carries its type, its *)
(* own created_at and the timestamp nested in its payload (the comment's   *)
(* or issue's updated_at, the review's submitted_at).                      *)
(***************************************************************************)
CreatedAtTypes == {"CreateEvent", "DeleteEvent", "ForkEvent", "PullRequestEvent",
                   "PushEvent", "ReleaseEvent"}
PayloadTypes == {"CommitCommentEvent", "IssueCommentEvent", "IssuesEvent",
                 "PullRequestReviewEvent", "PullRequestReviewCommentEvent"}
UnsupportedTypes == {"PublicEvent", "SponsorshipEvent"}
\* WatchEvent stands for every type the chain does not name
OtherTypes == {"WatchEvent"}
EventTypes == CreatedAtTypes \cup PayloadTypes \cup UnsupportedTypes \cup OtherTypes

RawEvent(type, created_at, payload_at) ==
    [type |-> type, created_at |-> created_at, payload_at |-> payload_at]

\* The provider's feed holds, of each event, its type and the days of its
\* two timestamps; the time of day is drawn when the event is delivered.
\* The modelled feeds hold a type that is dated by its created_at, a type
\* that is dated by its payload (updated the day after the event was
\* created, day 0 apart), both types that raise, and a type that is ignored.
HeldEvents ==
    { h \in [type : {"CreateEvent", "IssueCommentEvent", "PublicEvent",
                     "SponsorshipEvent", "WatchEvent"},
             created_day : Days, payload_day : Days] :
        /\ h.type = "IssueCommentEvent" =>
              h.created_day = (IF h.payload_day = 0 THEN 0 ELSE h.payload_day - 1)
        /\ h.type = "CreateEvent" => h.payload_day = h.created_day
        /\ h.type \in UnsupportedTypes \cup OtherTypes =>
              (h.created_day = 0 /\ h.payload_day = 0) }

StampsOf(day) == { day * TicksPerDay + tick : tick \in 0..(TicksPerDay - 1) }

\* the JSON objects a held event may be delivered as
Deliveries(h) ==
    { RawEvent(h.type, c, p) : c \in StampsOf(h.created_day), p \in StampsOf(h.payload_day) }

\* DetermineDate that takes a SponsorshipEvent for a type it does not name
DetermineDate_SponsorshipIgnored(event) ==
    IF event.type \in CreatedAtTypes THEN [do |-> "date", at |-> event.created_at]
    ELSE IF event.type \in PayloadTypes THEN [do |-> "date", at |-> event.payload_at]
    ELSE IF event.type = "PublicEvent" THEN [do |-> "raise", at |-> NoDay]
    ELSE [do |-> "ignore", at |-> NoDay]

\* the first if / elif chain: which timestamp is the event's date, or
\* the raise, or the `continue` of the else branch
DetermineDate(event) ==
    CASE event.type = "CommitCommentEvent" -> [do |-> "date", at |-> event.payload_at]
      [] event.type = "CreateEvent" -> [do |-> "date", at |-> event.created_at]
      [] event.type = "DeleteEvent" -> [do |-> "date", at |-> event.created_at]
      [] event.type = "ForkEvent" -> [do |-> "date", at |-> event.created_at]
      [] event.type = "IssueCommentEvent" -> [do |-> "date", at |-> event.payload_at]
      [] event.type = "IssuesEvent" -> [do |-> "date", at |-> event.payload_at]
      [] event.type = "PublicEvent" -> [do |-> "raise", at |-> NoDay]
      [] event.type = "PullRequestEvent" -> [do |-> "date", at |-> event.created_at]
      [] event.type = "PullRequestReviewEvent" -> [do |-> "date", at |-> event.payload_at]
      [] event.type = "PullRequestReviewCommentEvent" -> [do |-> "date", at |-> event.payload_at]
      [] event.type = "PushEvent" -> [do |-> "date", at |-> event.created_at]
      [] event.type = "ReleaseEvent" -> [do |-> "date", at |-> event.created_at]
      [] event.type = "SponsorshipEvent" -> [do |-> "raise", at |-> NoDay]
      [] OTHER -> [do |-> "ignore", at |-> NoDay]

\* GhTimelineCheck without the check against until
GhTimelineCheck_NoUntil(event_date, since_, until_) ==
    IF event_date < since_ THEN "stop" ELSE "present"

\* GhTimelineCheck with a continue in place of the break
GhTimelineCheck_NoBreak(event_date, since_, until_) ==
    IF event_date > until_ THEN "skip"
    ELSE IF event_date < since_ THEN "skip"
    ELSE "present"

\* the timeline check: "skip" is the continue, "stop" the break
GhTimelineCheck(event_date, since_, until_) ==
    IF event_date > until_ THEN "skip"
    ELSE IF event_date < since_ THEN "stop"
    ELSE "present"

\* the second if / elif chain prints a line for the types it names
PresentedTypes == CreatedAtTypes \cup PayloadTypes

\* lines of the report
Line(what, type, day) == [line |-> what, type |-> type, date |-> day]
Blank == Line("", "", NoDay)
GhHeading == Line("### All events (reverse chronological)", "", NoDay)
GhHorizonLine == Line("GitHub's event history does not go this far back.", "", NoDay)
GhRanOutLine == Line("Oh no! GitHub's event history ran out. :(", "", NoDay)
GhIgnoringLine(type) == Line("<!-- ignoring -->", type, NoDay)
GhEventLine(type, day) == Line("event", type, day)

Min(a, b) == IF a < b THEN a ELSE b
Max(a, b) == IF a > b THEN a ELSE b

\* the sequences over a set, up to a length
SeqsUpTo(S, n) == UNION { [1..k -> S] : k \in 0..n }

(***************************************************************************)
(* lookup_discourse: the user actions of the provider.  An action carries  *)
(* its created_at, its action_type, and the title and topic_id of its      *)
(* topic.                                                                  *)
(***************************************************************************)
LIKE == 1
NEW_TOPIC == 4
REPLY == 5
\* the codes of the modelled feeds: the three of the filter and one more
ActionCodes == {LIKE, NEW_TOPIC, REPLY} \cup {2}

RawAction(created_at, action_type, title, topic_id) ==
    [created_at |-> created_at, action_type |-> action_type,
     title |-> title, topic_id |-> topic_id]

\* The provider holds, of each action, the day of its created_at, its code
\* and its topic; the time of day is drawn when the action is delivered.
\* The actions hold replies in either of two topics, and likes, new topics
\* and actions of another code in the first.
HeldActions ==
    { h \in [day : Days, action_type : ActionCodes, title : {"A", "B"}, topic_id : {1, 2}] :
        /\ (h.title = "A") <=> (h.topic_id = 1)
        /\ h.action_type # REPLY => h.topic_id = 1 }

\* the actions of the feeds that are walked: of every day, a like, a reply
\* and an action of another code
WalkedActions ==
    { h \in HeldActions : h.topic_id = 1 /\ h.action_type # NEW_TOPIC }

\* the actions of the feeds whose tallies are followed: on day 1 every
\* modelled action, on day 0 a like
TalliedActions ==
    { h \in HeldActions : h.day = 1 \/ (h.day = 0 /\ h.action_type = LIKE) }

\* the JSON objects a held action may be delivered as
ActionDeliveries(h) ==
    { RawAction(st, h.action_type, h.title, h.topic_id) : st \in StampsOf(h.day) }

\* DiscTimelineCheck that takes an action of the day `until` for newer
DiscTimelineCheck_ExclusiveUntil(created_at, since_, until_) ==
    IF created_at >= until_ THEN "skip"
    ELSE IF created_at < since_ THEN "stop"
    ELSE "present"

\* DiscTimelineCheck that goes on past an action older than since
DiscTimelineCheck_NoReturn(created_at, since_, until_) ==
    IF created_at > until_ THEN "skip"
    ELSE IF created_at < since_ THEN "skip"
    ELSE "present"

\* the timeline check: "skip" is the continue, "stop" the return
DiscTimelineCheck(created_at, since_, until_) ==
    IF created_at > until_ THEN "skip"
    ELSE IF created_at < since_ THEN "stop"
    ELSE "present"

\* the offset that is raised only past the `continue`
OffsetAfter_NotForNewer(at, check) == IF check = "skip" THEN at ELSE at + 1

\* offset += 1, before the timeline check: whatever the check then says
OffsetAfter(at, check) == at + 1

\* key = (item["title"], f"{config.instance}/t/{item['topic_id']}")
TopicKey(item) == <<item.title, item.topic_id>>

\* the three tallies of the report
NoTally == [total_liked |-> 0, new_topics |-> <<>>, replies_by_topic |-> <<>>]

\* replies_by_topic[key] += 1 on a dict that keeps the order of insertion
RECURSIVE Increment(_, _)
Increment(replies, key) ==
    IF replies = <<>> THEN <<[key |-> key, count |-> 1]>>
    ELSE IF Head(replies).key = key
         THEN <<[key |-> key, count |-> Head(replies).count + 1]>> \o Tail(replies)
         ELSE <<Head(replies)>> \o Increment(Tail(replies), key)

\* Tally that counts an action of any other code as a like
Tally_OtherCodeLiked(tally, item) ==
    CASE item.action_type = NEW_TOPIC ->
            [tally EXCEPT !.new_topics = Append(@, TopicKey(item))]
      [] item.action_type = REPLY ->
            [tally EXCEPT !.replies_by_topic = Increment(@, TopicKey(item))]
      [] OTHER -> [tally EXCEPT !.total_liked = @ + 1]

\* the body of the loop over the bounded actions
Tally(tally, item) ==
    CASE item.action_type = LIKE ->
            [tally EXCEPT !.total_liked = @ + 1]
      [] item.action_type = NEW_TOPIC ->
            [tally EXCEPT !.new_topics = Append(@, TopicKey(item))]
      [] item.action_type = REPLY ->
            [tally EXCEPT !.replies_by_topic = Increment(@, TopicKey(item))]
      [] OTHER -> tally

RECURSIVE SumCounts(_)
SumCounts(replies) ==
    IF replies = <<>> THEN 0 ELSE Head(replies).count + SumCounts(Tail(replies))

DLine(what, n, key) == [line |-> what, n |-> n, key |-> key]
NoKey == <<"", 0>>
DBlank == DLine("", 0, NoKey)
DHeading == DLine("## (Discourse)", 0, NoKey)
DOffsetLine(offset) == DLine("<!-- offset -->", offset, NoKey)

NewTopicsBlock(new_topics) ==
    IF new_topics = <<>> THEN <<>>
    ELSE <<IF Len(new_topics) = 1
           THEN DLine("Created 1 new topic:", 1, NoKey)
           ELSE DLine("Created new topics:", Len(new_topics), NoKey),
           DBlank>>
         \o [i \in 1..Len(new_topics) |-> DLine("- topic", 0, new_topics[i])]
         \o <<DBlank>>

RepliesBlock(replies) ==
    IF replies = <<>> THEN <<>>
    ELSE <<DLine("Wrote replies in topics:", SumCounts(replies), <<"", Len(replies)>>),
           DBlank>>
         \o [i \in 1..Len(replies) |->
               DLine("- replies in", replies[i].count, replies[i].key)]
         \o <<DBlank>>

LikesBlock(total_liked) ==
    <<IF total_liked = 1
      THEN DLine("Liked 1 post.", 1, NoKey)
      ELSE DLine("Liked posts.", total_liked, NoKey),
      DBlank>>

\* the report printed after the loop
Report(tally) ==
    NewTopicsBlock(tally.new_topics)
        \o RepliesBlock(tally.replies_by_topic)
        \o LikesBlock(tally.total_liked)

(***************************************************************************)
(* State.                                                                  *)
(***************************************************************************)
VARIABLES
    \* the period resolution (cli.py: the `last` and `this` commands)
    calPc,        \* "off", "ready", "done"
    calToday,     \* date.today()
    calPeriod,    \* the period argument
    calText,      \* the text given to `did in`
    calCommand,   \* "this" or "last": the command that ran
    calResult,    \* what the call gave
    \* the window of a lookup and the day it runs
    since,
    until,
    today,
    \* _github_events
    ghPc,         \* "off", "start", "walking", "skipped", "stopped",
                  \* "exhausted", "failed"
    ghEvents,     \* the provider's feed of the user's events
    ghRequests,   \* pages of the feed requested so far
    ghRead,       \* events of the feed the loop has taken
    ghPageLeft,   \* events of the current page not yet taken
    ghOut,        \* the lines printed so far
    \* lookup_discourse
    dPc,          \* "off", "start", "request", "page", "done"
    dActions,     \* the provider's feed of the user's actions
    dSent,        \* the requests sent: offset asked, size of the page got
    dPage,        \* the page being read: its offset and its size
    dRead,        \* how many actions of the page have been read
    offset,       \* get_bounded_user_actions: offset
    dYielded,     \* the actions yielded to the loop of lookup_discourse,
                  \* by their place in the provider's feed
    dTally,       \* total_liked, new_topics, replies_by_topic
    dOut,         \* the lines printed so far
    \* run_configuration
    runPc,        \* "off", "running", "returned", "exited", "crashed"
    runConfig,    \* the configuration: its github, discourse and local-git
                  \* sources
    runAt,        \* the lookups begun so far, in the order of the loops
    runLog,       \* the requests and lookups made so far
    runExit,      \* the exit code of the process, NoExit while it runs
    \* lookup_local_git
    lgPc,         \* "off", "start", "loop", "done"
    lgItems,      \* config.directory.iterdir(): what is in the directory
    lgAt,         \* the items the loop has taken
    did_something,
    lgOut         \* the lines printed so far

calVars == <<calPc, calToday, calPeriod, calText, calCommand, calResult>>
winVars == <<since, until, today>>
ghVars == <<ghPc, ghEvents, ghRequests, ghRead, ghPageLeft, ghOut>>
dVars == <<dPc, dActions, dSent, dPage, dRead, offset, dYielded, dTally, dOut>>

runVars == <<runPc, runConfig, runAt, runLog, runExit>>
lgVars == <<lgPc, lgItems, lgAt, did_something, lgOut>>

vars == <<calVars, winVars, ghVars, dVars, runVars, lgVars>>

CalOff ==
    /\ calPc = "off"
    /\ calToday = NoDate
    /\ calPeriod = "none"
    /\ calText = <<>>
    /\ calCommand = "none"
    /\ calResult = NoResult

WinOff ==
    /\ since = 0
    /\ until = 0
    /\ today = 0

GhOff ==
    /\ ghPc = "off"
    /\ ghEvents = <<>>
    /\ ghRequests = 0
    /\ ghRead = 0
    /\ ghPageLeft = 0
    /\ ghOut = <<>>

NoPage == [offset |-> 0, size |-> 0]

DOff ==
    /\ dPc = "off"
    /\ dActions = <<>>
    /\ dSent = <<>>
    /\ dPage = NoPage
    /\ dRead = 0
    /\ offset = 0
    /\ dYielded = <<>>
    /\ dTally = NoTally
    /\ dOut = <<>>

NoExit == -1

RunOff ==
    /\ runPc = "off"
    /\ runConfig = <<>>
    /\ runAt = 0
    /\ runLog = <<>>
    /\ runExit = NoExit

LgOff ==
    /\ lgPc = "off"
    /\ lgItems = <<>>
    /\ lgAt = 0
    /\ did_something = FALSE
    /\ lgOut = <<>>

\* the windows that leave a day before their since, also those whose since
\* lies after their until (did since <a day after today>)
Windows == { w \in Days \X Days : w[1] \in {1, 2} }

InitWindow ==
    \E w \in Windows :
       /\ since = w[1]
       /\ until = w[2]

(***************************************************************************)
(* The period resolution.                                                  *)
(***************************************************************************)
InitCal ==
    /\ RunOff
    /\ LgOff
    /\ calPc = "ready"
    /\ calToday \in Todays
    /\ calPeriod \in Periods
    /\ calText = <<>>
    /\ calCommand = "none"
    /\ calResult = NoResult
    /\ WinOff
    /\ GhOff
    /\ DOff

\* did this <period>
This ==
    /\ calPc = "ready"
    /\ calCommand' = "this"
    /\ calResult' = get_this_period(calToday, calPeriod)
    /\ calPc' = "done"
    /\ UNCHANGED <<calToday, calPeriod, calText, winVars, ghVars, dVars,
                 runVars, lgVars>>

\* did last <period>
Last ==
    /\ calPc = "ready"
    /\ calCommand' = "last"
    /\ calResult' = get_last_period(calToday, calPeriod)
    /\ calPc' = "done"
    /\ UNCHANGED <<calToday, calPeriod, calText, winVars, ghVars, dVars,
                 runVars, lgVars>>

NextCal == This \/ Last

SpecCal == InitCal /\ [][NextCal]_vars

(***************************************************************************)
(* The explicit range: did in <period>.                                    *)
(***************************************************************************)
\* the years written in the texts: the modelled years, a leap century year
\* and a century year that is not leap
RangeYears == (FirstYear..LastYear) \cup {2000, 2100}

\* "%04d" % y
YearText(y) ==
    << DigitChars[((y \div 1000) % 10) + 1], DigitChars[((y \div 100) % 10) + 1],
       DigitChars[((y \div 10) % 10) + 1], DigitChars[(y % 10) + 1] >>

\* a word in lower case, capitalized and in upper case
Casings(word) == {word, Capitalize(word), Upper(word)}

MonthYearText(word, y) == word \o <<"-">> \o YearText(y)

MonthYearTexts ==
    { MonthYearText(word, y) :
        word \in UNION { Casings(MonthAbbr[m]) : m \in 1..Len(MonthAbbr) },
        y \in RangeYears }

\* q1 .. q5 and Q1 .. Q5 with a year
QuarterYearTexts ==
    { MonthYearText(word, y) :
        word \in UNION { Casings(<<"q", DigitChars[n + 1]>>) : n \in 1..5 },
        y \in RangeYears }

YearTexts == { YearText(y) : y \in RangeYears }

\* texts of no form, or with a part that is not what its form asks
OtherTexts ==
    { <<"x", "y", "z", "-", "2", "0", "2", "0">>,
      <<"2", "0", "2", "0", "-", "f", "e", "b">>,
      <<"f", "e", "b", "2", "0", "2", "0">>,
      <<"f", "e", "b", "-", "2", "0", "a", "0">>,
      <<"q", "1", "-", "2", "0", "a", "0">>,
      <<"f", "e", "b", "-", "2", "0">> }

PeriodTexts == MonthYearTexts \cup QuarterYearTexts \cup YearTexts \cup OtherTexts

InitRange ==
    /\ RunOff
    /\ LgOff
    /\ calPc = "ready"
    /\ calToday = NoDate
    /\ calPeriod = "none"
    /\ calText \in PeriodTexts
    /\ calCommand = "none"
    /\ calResult = NoResult
    /\ WinOff
    /\ GhOff
    /\ DOff

\* did in <period>, up to the range it hands to main
In ==
    /\ calPc = "ready"
    /\ calCommand' = "in"
    /\ calResult' = convert_to_range(calText)
    /\ calPc' = "done"
    /\ UNCHANGED <<calToday, calPeriod, calText, winVars, ghVars, dVars,
                 runVars, lgVars>>

NextRange == In

SpecRange == InitRange /\ [][NextRange]_vars

(***************************************************************************)
(* _github_events.                                                         *)
(***************************************************************************)
InitGH ==
    /\ RunOff
    /\ LgOff
    /\ CalOff
    /\ InitWindow
    \* a day on either side of the horizon of the events feed
    /\ today \in {until + HorizonDays, until + HorizonDays + 1}
    /\ ghPc = "start"
    /\ ghEvents \in SeqsUpTo(HeldEvents, MaxEvents)
    /\ ghRequests = 0
    /\ ghRead = 0
    /\ ghPageLeft = 0
    /\ ghOut = <<>>
    /\ DOff

\* the heading and the horizon check, up to the first request
GhBegin ==
    /\ ghPc = "start"
    /\ IF BeyondHorizon(today, until)
       THEN /\ ghOut' = ghOut \o <<GhHeading, Blank, GhHorizonLine, Blank>>
            /\ ghPc' = "skipped"
       ELSE /\ ghOut' = ghOut \o <<GhHeading, Blank>>
            /\ ghPc' = "walking"
    /\ UNCHANGED <<ghEvents, ghRequests, ghRead, ghPageLeft, calVars, winVars, dVars, runVars, lgVars>>

\* gh.getiter asks for the first page, and for the next one when the page
\* it holds is used up and the feed goes on
GhRequestPage ==
    /\ ghPc = "walking"
    /\ ghPageLeft = 0
    /\ ghRequests = 0 \/ ghRead < Len(ghEvents)
    /\ ghPageLeft' = Min(GhPageSize, Len(ghEvents) - ghRead)
    /\ ghRequests' = ghRequests + 1
    /\ UNCHANGED <<ghPc, ghEvents, ghRead, ghOut, calVars, winVars, dVars, runVars, lgVars>>

\* what one turn of the loop body does with an event: the line it prints
\* (none: <<>>) and where the walk goes
GhTurn(event, since_, until_) ==
    LET found == DetermineDate(event)
        event_date == StrptimeDate(found.at)
        check == GhTimelineCheck(event_date, since_, until_)
    IN  CASE found.do = "raise" -> [out |-> <<>>, pc |-> "failed"]
          [] found.do = "ignore" ->
                [out |-> <<GhIgnoringLine(event.type)>>, pc |-> "walking"]
          [] found.do = "date" /\ check = "skip" -> [out |-> <<>>, pc |-> "walking"]
          [] found.do = "date" /\ check = "stop" -> [out |-> <<>>, pc |-> "stopped"]
          [] found.do = "date" /\ check = "present" ->
                IF event.type \in PresentedTypes
                THEN [out |-> <<GhEventLine(event.type, event_date)>>, pc |-> "walking"]
                ELSE [out |-> <<>>, pc |-> "failed"]

\* one turn of the loop on the next event of the page
GhEvent ==
    /\ ghPc = "walking"
    /\ ghPageLeft > 0
    /\ \E event \in Deliveries(ghEvents[ghRead + 1]) :
          LET turn == GhTurn(event, since, until)
          IN  /\ ghOut' = ghOut \o turn.out
              /\ ghPc' = turn.pc
    /\ ghRead' = ghRead + 1
    /\ ghPageLeft' = ghPageLeft - 1
    /\ UNCHANGED <<ghEvents, ghRequests, calVars, winVars, dVars, runVars, lgVars>>

\* the else of the loop: the feed ended and no break left the loop
GhRanOut ==
    /\ ghPc = "walking"
    /\ ghPageLeft = 0
    /\ ghRequests > 0
    /\ ghRead >= Len(ghEvents)
    /\ ghOut' = ghOut \o <<GhRanOutLine, Blank>>
    /\ ghPc' = "exhausted"
    /\ UNCHANGED <<ghEvents, ghRequests, ghRead, ghPageLeft, calVars, winVars, dVars, runVars, lgVars>>

NextGH == GhBegin \/ GhRequestPage \/ GhEvent \/ GhRanOut

SpecGH == InitGH /\ [][NextGH]_vars

\* Events of every type of the chain and of a type it does not name, each
\* on any day; an event dated by its payload was created the day before.
KindEvents ==
    { h \in [type : EventTypes, created_day : Days, payload_day : Days] :
        IF h.type \in PayloadTypes
        THEN h.created_day = (IF h.payload_day = 0 THEN 0 ELSE h.payload_day - 1)
        ELSE h.payload_day = h.created_day }

\* the types of which a feed of every kind may hold several events
RepeatedTypes == {"CreateEvent"} \cup UnsupportedTypes \cup OtherTypes

\* feeds of events of every kind, with at most one event of the other types
KindFeeds ==
    { feed \in SeqsUpTo(KindEvents, MaxKindEvents) :
        \A i, j \in 1..Len(feed) :
           (feed[i].type \notin RepeatedTypes /\ feed[j].type \notin RepeatedTypes)
              => i = j }

\* _github_events on the feeds of every kind, for the window of day 1
InitKinds ==
    /\ RunOff
    /\ LgOff
    /\ CalOff
    /\ since = 1
    /\ until = 1
    /\ today = until + HorizonDays
    /\ ghPc = "start"
    /\ ghEvents \in KindFeeds
    /\ ghRequests = 0
    /\ ghRead = 0
    /\ ghPageLeft = 0
    /\ ghOut = <<>>
    /\ DOff

SpecKinds == InitKinds /\ [][NextGH]_vars

(***************************************************************************)
(* lookup_discourse.                                                       *)
(***************************************************************************)
InitDisc ==
    /\ RunOff
    /\ LgOff
    /\ CalOff
    /\ InitWindow
    /\ today = until
    /\ GhOff
    /\ dPc = "start"
    /\ dActions \in SeqsUpTo(WalkedActions, MaxActions)
    /\ dSent = <<>>
    /\ dPage = NoPage
    /\ dRead = 0
    /\ offset = 0
    /\ dYielded = <<>>
    /\ dTally = NoTally
    /\ dOut = <<>>

\* the heading, the empty tallies and the start of the generator
DiscBegin ==
    /\ dPc = "start"
    /\ dOut' = dOut \o <<DHeading, DBlank>>
    /\ dTally' = NoTally
    /\ offset' = 0
    /\ dPc' = "request"
    /\ UNCHANGED <<dActions, dSent, dPage, dRead, dYielded, calVars, winVars, ghVars, runVars, lgVars>>

\* the provider serves the slice of its actions that starts at the offset
PageAt(actions, at) ==
    [offset |-> at, size |-> Min(DiscPageSize, Max(0, Len(actions) - at))]

\* one turn of `while True`: print the offset, request the page there
DiscRequest ==
    /\ dPc = "request"
    /\ Len(dSent) < MaxRequests
    /\ dOut' = Append(dOut, DOffsetLine(offset))
    /\ dPage' = PageAt(dActions, offset)
    /\ dSent' = Append(dSent, PageAt(dActions, offset))
    /\ dRead' = 0
    /\ dPc' = IF PageAt(dActions, offset).size = 0 THEN "request" ELSE "page"
    /\ UNCHANGED <<dActions, offset, dYielded, dTally, calVars, winVars, ghVars, runVars, lgVars>>

\* one turn of `for item in actions`, with the body of the loop of
\* lookup_discourse when the item is yielded and the report when the
\* generator returns
DiscItem ==
    /\ dPc = "page"
    /\ dRead < dPage.size
    /\ \E item \in ActionDeliveries(dActions[dPage.offset + dRead + 1]) :
          LET created_at == StrptimeDate(item.created_at)
              check == DiscTimelineCheck(created_at, since, until)
          IN  /\ offset' = OffsetAfter(offset, check)
              /\ CASE check = "skip" ->
                      /\ dPc' = IF dRead + 1 = dPage.size THEN "request" ELSE "page"
                      /\ UNCHANGED <<dYielded, dTally, dOut>>
                [] check = "stop" ->
                      /\ dPc' = "done"
                      /\ dOut' = dOut \o Report(dTally)
                      /\ UNCHANGED <<dYielded, dTally>>
                [] check = "present" ->
                      /\ dYielded' = Append(dYielded, dPage.offset + dRead + 1)
                      /\ dTally' = Tally(dTally, item)
                      /\ dPc' = IF dRead + 1 = dPage.size THEN "request" ELSE "page"
                      /\ UNCHANGED dOut
    /\ dRead' = dRead + 1
    /\ UNCHANGED <<dActions, dSent, dPage, calVars, winVars, ghVars, runVars, lgVars>>

NextDisc == DiscBegin \/ DiscRequest \/ DiscItem

SpecDisc == InitDisc /\ [][NextDisc]_vars

\* lookup_discourse on the feeds whose tallies are followed, for the window
\* of day 1
InitTally ==
    /\ RunOff
    /\ LgOff
    /\ CalOff
    /\ since = 1
    /\ until = 1
    /\ today = 1
    /\ GhOff
    /\ dPc = "start"
    /\ dActions \in SeqsUpTo(TalliedActions, MaxTallied)
    /\ dSent = <<>>
    /\ dPage = NoPage
    /\ dRead = 0
    /\ offset = 0
    /\ dYielded = <<>>
    /\ dTally = NoTally
    /\ dOut = <<>>

SpecTally == InitTally /\ [][NextDisc]_vars

(***************************************************************************)
(* Either walker, on its own source.                                       *)
(***************************************************************************)
InitWalk == InitGH \/ InitDisc

NextWalk == NextGH \/ NextDisc

SpecWalk == InitWalk /\ [][NextWalk]_vars

(***************************************************************************)
(* run_configuration and lookup_github.                                    *)
(***************************************************************************)
\* a github source: how many searches and how many users' events it lists
GithubSources == [search : 0..1, events : 0..1]

Configurations ==
    [github : SeqsUpTo(GithubSources, MaxGithub), discourse : 0..1, local_git : 0..1]

Step(what, source) == [what |-> what, source |-> source]

\* the lookups of one github source, in the order lookup_github makes them
GithubPlan(config, g) ==
    <<Step("rate_limit", g)>>
        \o [i \in 1..config.github[g].search |-> Step("search", g)]
        \o [i \in 1..config.github[g].events |-> Step("events", g)]

RECURSIVE GithubPlans(_, _)
GithubPlans(config, g) ==
    IF g > Len(config.github) THEN <<>>
    ELSE GithubPlan(config, g) \o GithubPlans(config, g + 1)

\* the lookups of run_configuration, in the order of its three loops
Plan(config) ==
    GithubPlans(config, 1)
        \o [i \in 1..config.discourse |-> Step("discourse", i)]
        \o [i \in 1..config.local_git |-> Step("local_git", i)]

\* what gh.getitem("rate_limit") may do
ProbeOutcomes == {"ok", "BadRequest", "RedirectionException"}

\* the probe with a redirect that is not caught
AfterProbe_RedirectGoesOn(outcome) ==
    IF outcome = "BadRequest" THEN "Stop" ELSE "go on"

\* the try / except around the probe: Stop is raised, or the lookup goes on
AfterProbe(outcome) ==
    IF outcome = "BadRequest" THEN "Stop"
    ELSE IF outcome = "RedirectionException" THEN "Stop"
    ELSE "go on"

\* the events of the feeds of a run: an event older than since, an event
\* of each kind that raises and an event that is ignored
RunHeldEvents ==
    { h \in HeldEvents :
        \/ h.type = "CreateEvent" /\ h.created_day = 0
        \/ h.type \in UnsupportedTypes \cup OtherTypes }

RunFeeds == SeqsUpTo(RunHeldEvents, MaxRunEvents)

\* the loop of _github_events from the i-th event of the feed: how it ends
RECURSIVE GhWalkFrom(_, _, _, _)
GhWalkFrom(feed, i, since_, until_) ==
    IF i > Len(feed) THEN "exhausted"
    ELSE LET h == feed[i]
             event == RawEvent(h.type, h.created_day * TicksPerDay,
                               h.payload_day * TicksPerDay)
             turn == GhTurn(event, since_, until_)
         IN  IF turn.pc = "walking" THEN GhWalkFrom(feed, i + 1, since_, until_)
             ELSE turn.pc

\* _github_events as a whole: "skipped", "stopped", "exhausted", or "failed"
\* when NotImplementedError leaves it
github_events(feed, today_, since_, until_) ==
    IF BeyondHorizon(today_, until_) THEN "skipped"
    ELSE GhWalkFrom(feed, 1, since_, until_)

Made(step, result) == [what |-> step.what, source |-> step.source, result |-> result]

InitRun ==
    /\ LgOff
    /\ CalOff
    /\ InitWindow
    /\ today = until
    /\ GhOff
    /\ DOff
    /\ runPc = "running"
    /\ runConfig \in Configurations
    /\ runAt = 0
    /\ runLog = <<>>
    /\ runExit = NoExit

\* the lookup that is next in the loops
RunNext(what) ==
    /\ runPc = "running"
    /\ runAt < Len(Plan(runConfig))
    /\ Plan(runConfig)[runAt + 1].what = what

\* lookup_github up to its heading: the probe; Stop leaves run_configuration
\* through its except clause, sys.exit(1)
RunProbe ==
    /\ RunNext("rate_limit")
    /\ \E outcome \in ProbeOutcomes :
          /\ runLog' = Append(runLog, Made(Plan(runConfig)[runAt + 1], outcome))
          /\ IF AfterProbe(outcome) = "Stop"
             THEN runPc' = "exited" /\ runExit' = 1
             ELSE runPc' = "running" /\ runExit' = runExit
    /\ runAt' = runAt + 1
    /\ UNCHANGED <<runConfig, calVars, winVars, ghVars, dVars, lgVars>>

\* one _github_search
RunSearch ==
    /\ RunNext("search")
    /\ runLog' = Append(runLog, Made(Plan(runConfig)[runAt + 1], "done"))
    /\ runAt' = runAt + 1
    /\ UNCHANGED <<runPc, runConfig, runExit, calVars, winVars, ghVars, dVars, lgVars>>

\* one _github_events on the feed the provider serves; NotImplementedError
\* is not caught by run_configuration and ends the process with a traceback
RunEvents ==
    /\ RunNext("events")
    /\ \E feed \in RunFeeds :
          LET result == github_events(feed, today, since, until)
          IN  /\ runLog' = Append(runLog, Made(Plan(runConfig)[runAt + 1], result))
              /\ IF result = "failed"
                 THEN runPc' = "crashed" /\ runExit' = 1
                 ELSE runPc' = "running" /\ runExit' = runExit
    /\ runAt' = runAt + 1
    /\ UNCHANGED <<runConfig, calVars, winVars, ghVars, dVars, lgVars>>

\* one lookup_discourse
RunDiscourse ==
    /\ RunNext("discourse")
    /\ runLog' = Append(runLog, Made(Plan(runConfig)[runAt + 1], "done"))
    /\ runAt' = runAt + 1
    /\ UNCHANGED <<runPc, runConfig, runExit, calVars, winVars, ghVars, dVars, lgVars>>

\* one lookup_local_git
RunLocalGit ==
    /\ RunNext("local_git")
    /\ runLog' = Append(runLog, Made(Plan(runConfig)[runAt + 1], "done"))
    /\ runAt' = runAt + 1
    /\ UNCHANGED <<runPc, runConfig, runExit, calVars, winVars, ghVars, dVars, lgVars>>

\* the loops are over: run_configuration returns
RunReturn ==
    /\ runPc = "running"
    /\ runAt = Len(Plan(runConfig))
    /\ runPc' = "returned"
    /\ runExit' = 0
    /\ UNCHANGED <<runConfig, runAt, runLog, calVars, winVars, ghVars, dVars, lgVars>>

NextRun ==
    RunProbe \/ RunSearch \/ RunEvents \/ RunDiscourse \/ RunLocalGit \/ RunReturn

SpecRun == InitRun /\ [][NextRun]_vars

(***************************************************************************)
(* lookup_local_git.                                                       *)
(***************************************************************************)
\* an item of the directory: whether it holds a .git, and what running git
\* log in it gives; an item without .git is never run
DirectoryItems ==
    { item \in [git : BOOLEAN, stderr : BOOLEAN, returncode : {0, 128}, stdout : BOOLEAN] :
        ~item.git => (~item.stderr /\ item.returncode = 0 /\ ~item.stdout) }

LgLine(what, at, code) == [line |-> what, item |-> at, code |-> code]
LgHeading == LgLine("## Local Repositories", 0, 0)
LgBlank == LgLine("", 0, 0)
LgNothing == LgLine("Nothing.", 0, 0)

\* the error test that looks at stderr only
EncounteredError_StderrOnly(process) == process.stderr

\* if process.stderr or process.returncode
EncounteredError(process) == process.stderr \/ process.returncode # 0

\* the comment printed for a repository whose git failed
ErrorComment(process, at) ==
    IF EncounteredError(process)
    THEN << LgLine("<!-- Encountered error:", at, 0),
            LgLine("stderr", at, 0),
            LgLine("exited with code:", at, process.returncode),
            LgLine("-->", at, 0),
            LgBlank >>
    ELSE <<>>

\* the section printed for a repository whose git wrote a log
LogSection(process, at) ==
    IF process.stdout
    THEN << LgLine("### name", at, 0), LgBlank, LgLine("stdout", at, 0), LgBlank >>
    ELSE <<>>

InitLocalGit ==
    /\ RunOff
    /\ CalOff
    /\ WinOff
    /\ GhOff
    /\ DOff
    /\ lgPc = "start"
    /\ lgItems \in SeqsUpTo(DirectoryItems, MaxItems)
    /\ lgAt = 0
    /\ did_something = FALSE
    /\ lgOut = <<>>

\* the heading, did_something = False
LgBegin ==
    /\ lgPc = "start"
    /\ lgOut' = lgOut \o <<LgHeading, LgBlank>>
    /\ did_something' = FALSE
    /\ lgPc' = "loop"
    /\ UNCHANGED <<lgItems, lgAt, calVars, winVars, ghVars, dVars, runVars>>

\* one turn of the loop over the directory
LgItem ==
    /\ lgPc = "loop"
    /\ lgAt < Len(lgItems)
    /\ LET item == lgItems[lgAt + 1]
       IN  IF ~item.git
           THEN UNCHANGED <<lgOut, did_something>>
           ELSE /\ lgOut' = lgOut \o ErrorComment(item, lgAt + 1)
                                   \o LogSection(item, lgAt + 1)
                /\ did_something' = (did_something \/ item.stdout)
    /\ lgAt' = lgAt + 1
    /\ UNCHANGED <<lgPc, lgItems, calVars, winVars, ghVars, dVars, runVars>>

\* after the loop: "Nothing." when no repository wrote a log
LgEnd ==
    /\ lgPc = "loop"
    /\ lgAt = Len(lgItems)
    /\ lgOut' = lgOut \o (IF ~did_something THEN <<LgNothing, LgBlank>> ELSE <<>>)
    /\ lgPc' = "done"
    /\ UNCHANGED <<lgItems, lgAt, did_something, calVars, winVars, ghVars, dVars, runVars>>

NextLocalGit == LgBegin \/ LgItem \/ LgEnd

SpecLocalGit == InitLocalGit /\ [][NextLocalGit]_vars

(***************************************************************************)
(* The walkers: properties.                                                *)
(***************************************************************************)
\* the date the walk computes for an event of the feed, NoDay when the
\* walk computes none
EventDate(h) ==
    LET found == DetermineDate(RawEvent(h.type, h.created_day * TicksPerDay,
                                        h.payload_day * TicksPerDay))
    IN  IF found.do = "date" THEN StrptimeDate(found.at) ELSE NoDay

Dated(h) == DetermineDate(RawEvent(h.type, 0, 0)).do = "date"
Unsupported(h) == DetermineDate(RawEvent(h.type, 0, 0)).do = "raise"

InWindow(day) == since <= day /\ day <= until

\* newest first, by the computed dates
GhSorted(feed) ==
    \A i, j \in 1..Len(feed) :
       (i < j /\ Dated(feed[i]) /\ Dated(feed[j])) => EventDate(feed[i]) >= EventDate(feed[j])

GhOlder(h) == Dated(h) /\ EventDate(h) < since

GhHasOlder(feed) == \E i \in 1..Len(feed) : GhOlder(feed[i])

\* no event that raises comes before the first event older than since
GhReachesOlder(feed) ==
    \E i \in 1..Len(feed) :
       /\ GhOlder(feed[i])
       /\ \A j \in 1..(i - 1) : ~Unsupported(feed[j])

RECURSIVE Ascending(_)
\* the numbers of a finite set, smallest first
Ascending(S) ==
    IF S = {} THEN <<>>
    ELSE LET m == CHOOSE x \in S : \A y \in S : x <= y
         IN  <<m>> \o Ascending(S \ {m})

\* the places 1..n of a sequence whose entry satisfies Test, in order
Select(seq, n, Test(_)) == Ascending({ i \in 1..n : Test(seq[i]) })

GhInWindow(h) == Dated(h) /\ InWindow(EventDate(h))

\* the timeline lines of the events of recognized kind inside the window
GhExpectedLines(feed) ==
    LET at == Select(feed, Len(feed), GhInWindow)
    IN  [k \in 1..Len(at) |-> GhEventLine(feed[at[k]].type, EventDate(feed[at[k]]))]

IsEventLine(l) == l.line = "event"

\* the timeline lines printed so far
GhTimeline ==
    LET at == Select(ghOut, Len(ghOut), IsEventLine)
    IN  [k \in 1..Len(at) |-> ghOut[at[k]]]

GhOver == ghPc \in {"stopped", "exhausted", "failed"}

DiscSorted(feed) ==
    \A i, j \in 1..Len(feed) : i < j => feed[i].day >= feed[j].day

DiscHasOlder(feed) == \E i \in 1..Len(feed) : feed[i].day < since

DiscInWindow(h) == InWindow(h.day)

DiscCounted(h) == h.action_type \in {LIKE, NEW_TOPIC, REPLY}

DiscCountedInWindow(h) == DiscInWindow(h) /\ DiscCounted(h)

\* how many actions the tallies have counted
TallySize(tally) ==
    tally.total_liked + Len(tally.new_topics) + SumCounts(tally.replies_by_topic)

\* C1: every event handed downstream (printed as a timeline line by the
\* GitHub walk, yielded to the tally by the Discourse walk) has a computed
\* date d with since <= d <= until, whatever the feed and the window.
C1_HandedDownstreamInsideWindow ==
    /\ \A i \in 1..Len(ghOut) :
          IsEventLine(ghOut[i]) => (since <= ghOut[i].date /\ ghOut[i].date <= until)
    /\ \A i \in 1..Len(dYielded) :
          since <= dActions[dYielded[i]].day /\ dActions[dYielded[i]].day <= until
    /\ TallySize(dTally) <= Len(dYielded)

\* an unsorted feed with events after, inside and before the window, and
\* a timeline line
C1_Witness ==
    /\ ghPc = "stopped"
    /\ ~GhSorted(ghEvents)
    /\ \E i \in 1..Len(ghEvents) : Dated(ghEvents[i]) /\ EventDate(ghEvents[i]) > until
    /\ \E i \in 1..Len(ghOut) : IsEventLine(ghOut[i]) /\ ghOut[i].date = since

C3_EmptyPageEndsWalk ==
    \A i \in 1..Len(dSent) :
       dSent[i].size = 0 => (i = Len(dSent) /\ dPc = "done")

GhWarned == \E i \in 1..Len(ghOut) : ghOut[i] = GhRanOutLine

\* C4 as stated: the history-exhausted warning is printed if and only if
\* the walk ran and took every event of the feed, to the end of its last
\* page, without reaching a recognized event older than since; a walk that
\* stopped on such an event has printed none.
C4_WarningIffNoOlderReached ==
    /\ (GhOver \/ ghPc = "skipped") =>
          (GhWarned <=>
             /\ today - until <= 90
             /\ ~GhHasOlder(ghEvents)
             /\ \A i \in 1..Len(ghEvents) : ~Unsupported(ghEvents[i]))
    /\ ghPc = "stopped" => ~GhWarned

\* a recognized event older than since that the timeline check does not
\* skip as newer than until
GhStops(h) == GhOlder(h) /\ EventDate(h) <= until

\* C4, amended: the warning is printed if and only if the walk ran and took
\* every event of the feed without reaching a recognized event that is
\* older than since and not newer than until; a walk that stopped on such
\* an event, was skipped or is still under way has printed none.
C4_WarningIffFeedRanOut ==
    /\ (GhOver \/ ghPc = "skipped") =>
          (GhWarned <=>
             /\ today - until <= 90
             /\ \A i \in 1..Len(ghEvents) : ~GhStops(ghEvents[i])
             /\ \A i \in 1..Len(ghEvents) : ~Unsupported(ghEvents[i]))
    /\ GhWarned => ghPc = "exhausted"
    /\ ghPc = "stopped" => ~GhWarned

\* a feed of two pages, all inside the window, that ran out
C4_Witness ==
    /\ ghPc = "exhausted"
    /\ GhWarned
    /\ ghRequests = 2
    /\ Len(GhTimeline) = Len(ghEvents)
    /\ Len(ghEvents) > GhPageSize

GhHorizonPrinted == \E i \in 1..Len(ghOut) : ghOut[i] = GhHorizonLine

\* C5: if today - until is more than 90 days no page of the events feed is
\* ever requested and the horizon message is printed, without the
\* exhaustion warning; if it is 90 days or less the walk is run.
C5_HorizonSkipsWalk ==
    ghPc \notin {"off", "start"} =>
        IF today - until > 90
        THEN /\ ghPc = "skipped"
             /\ ghRequests = 0
             /\ ghRead = 0
             /\ GhHorizonPrinted
             /\ ~GhWarned
        ELSE /\ ghPc # "skipped"
             /\ ~GhHorizonPrinted
             /\ GhOver => ghRequests >= 1

\* a feed with events inside the window, 91 days back: never requested
C5_Witness ==
    /\ ghPc = "skipped"
    /\ today - until = 91
    /\ since <= until
    /\ \E i \in 1..Len(ghEvents) : GhInWindow(ghEvents[i])
    /\ ghRequests = 0

NothingLine == Line("Nothing.", "", NoDay)

\* C6: a walk that ran and yielded no event inside the window renders
\* "Nothing."; a walk skipped by the horizon check renders the horizon
\* warning, and not "Nothing.".
C6_EmptyWalkRendersNothing ==
    /\ (ghPc \in {"stopped", "exhausted"} /\ GhTimeline = <<>>) =>
          (\E i \in 1..Len(ghOut) : ghOut[i] = NothingLine)
    /\ ghPc = "skipped" =>
          /\ GhHorizonPrinted
          /\ \A i \in 1..Len(ghOut) : ghOut[i] # NothingLine

(***************************************************************************)
(* Period resolution: properties.                                          *)
(***************************************************************************)
CalDone(command, period) ==
    /\ calPc = "done"
    /\ calCommand = command
    /\ calPeriod = period

\* the calendar quarter before the one that holds `today`
PrevQuarterYear(ref) == IF ref.month <= 3 THEN ref.year - 1 ELSE ref.year
PrevQuarterFirstMonth(ref) ==
    IF ref.month <= 3 THEN 10 ELSE (((ref.month - 1) \div 3) - 1) * 3 + 1

\* C7: for every today and every period, last_period and this_period return
\* a PeriodSpec (no exception) with start <= end.
C7_ReturnsOrderedSpan ==
    calPc = "done" =>
        /\ calResult.raised = "none"
        /\ DateLeq(calResult.start, calResult.end)

\* C8: last_period(today, "quarter") is the calendar quarter before today's:
\* from the first day of its first month to the last day of its third month.
C8_LastQuarterIsPreviousCalendarQuarter ==
    CalDone("last", "quarter") =>
        LET y == PrevQuarterYear(calToday)
            m == PrevQuarterFirstMonth(calToday)
        IN  /\ calResult.raised = "none"
            /\ calResult.start = MkDate(y, m, 1)
            /\ calResult.end = MkDate(y, m + 2, DaysInMonth(y, m + 2))

\* C9: last_period(date(2021,12,10), "quarter") is 2021-09-01 .. 2021-11-30.
C9_LastQuarterOfDec2021 ==
    (CalDone("last", "quarter") /\ calToday = MkDate(2021, 12, 10)) =>
        /\ calResult.raised = "none"
        /\ calResult.start = MkDate(2021, 9, 1)
        /\ calResult.end = MkDate(2021, 11, 30)

\* C10: last_period(today, "week") is a span of exactly 7 days, Monday to
\* Sunday, whose end is the day before this_period(today, "week").start.
C10_LastWeekIsPreviousMondayToSunday ==
    CalDone("last", "week") =>
        /\ calResult.raised = "none"
        /\ ToOrdinal(calResult.end) - ToOrdinal(calResult.start) + 1 = 7
        /\ Weekday(calResult.start) = 0
        /\ Weekday(calResult.end) = 6
        /\ ToOrdinal(calResult.end) + 1
               = ToOrdinal(get_this_period(calToday, "week").start)

\* the week before Friday 2021-12-10 (tests/test_did.py)
C10_Witness ==
    /\ CalDone("last", "week")
    /\ calToday = MkDate(2021, 12, 10)
    /\ calResult.start = MkDate(2021, 11, 29)
    /\ calResult.end = MkDate(2021, 12, 5)

\* the first month of the quarter that holds month m
QuarterFirstMonth(m) == CHOOSE q \in {1, 4, 7, 10} : q <= m /\ m <= q + 2

\* C11: this_period(today, period) ends today and starts on the first day
\* of the period that holds today: the Monday of its week, day 1 of its
\* month, day 1 of the first month of its quarter, January 1 of its year;
\* the start is never after today.
C11_ThisPeriodStartsContainingPeriod ==
    (calPc = "done" /\ calCommand = "this") =>
        /\ calResult.raised = "none"
        /\ calResult.end = calToday
        /\ DateLeq(calResult.start, calToday)
        /\ calPeriod = "week" =>
              /\ Weekday(calResult.start) = 0
              /\ ToOrdinal(calToday) - ToOrdinal(calResult.start) < 7
        /\ calPeriod = "month" =>
              calResult.start = MkDate(calToday.year, calToday.month, 1)
        /\ calPeriod = "quarter" =>
              calResult.start
                  = MkDate(calToday.year, QuarterFirstMonth(calToday.month), 1)
        /\ calPeriod = "year" => calResult.start = MkDate(calToday.year, 1, 1)

\* this week of Friday 2021-12-10 (tests/test_did.py)
C11_Witness ==
    /\ CalDone("this", "week")
    /\ calToday = MkDate(2021, 12, 10)
    /\ calResult.start = MkDate(2021, 12, 6)
    /\ calResult.end = MkDate(2021, 12, 10)

\* the month before the one that holds `ref`
PrevMonthYear(ref) == IF ref.month = 1 THEN ref.year - 1 ELSE ref.year
PrevMonth(ref) == IF ref.month = 1 THEN 12 ELSE ref.month - 1

\* C12: last_period(today, "month") is the calendar month before today's
\* and last_period(today, "year") the calendar year before today's, from
\* its first day to its last day (2021-12-10: 2021-11-01..2021-11-30 and
\* 2020-01-01..2020-12-31).
C12_LastMonthAndYearArePreviousCalendarOnes ==
    /\ CalDone("last", "month") =>
          LET y == PrevMonthYear(calToday)
              m == PrevMonth(calToday)
          IN  /\ calResult.raised = "none"
              /\ calResult.start = MkDate(y, m, 1)
              /\ calResult.end = MkDate(y, m, DaysInMonth(y, m))
              /\ calToday = MkDate(2021, 12, 10) =>
                    /\ calResult.start = MkDate(2021, 11, 1)
                    /\ calResult.end = MkDate(2021, 11, 30)
    /\ CalDone("last", "year") =>
          /\ calResult.raised = "none"
          /\ calResult.start = MkDate(calToday.year - 1, 1, 1)
          /\ calResult.end = MkDate(calToday.year - 1, 12, 31)
          /\ calToday = MkDate(2021, 12, 10) =>
                /\ calResult.start = MkDate(2020, 1, 1)
                /\ calResult.end = MkDate(2020, 12, 31)

\* the month before March of a leap year
C12_Witness ==
    /\ CalDone("last", "month")
    /\ calToday = MkDate(2020, 3, 31)
    /\ calResult.start = MkDate(2020, 2, 1)
    /\ calResult.end = MkDate(2020, 2, 29)

(***************************************************************************)
(* The explicit range: properties.                                         *)
(***************************************************************************)
RangeDone == calPc = "done" /\ calCommand = "in"

\* C13: for a lowercase three-letter month name m and a four-digit year y,
\* explicit_range("m-y") is (first day of the month, last day of the
\* month); February ends on the 29th exactly in leap years (feb-2020 ends
\* 2020-02-29, feb-2021 ends 2021-02-28).
C13_MonthYearIsWholeMonthLeapAware ==
    \A m \in 1..12, y \in RangeYears :
       (RangeDone /\ calText = MonthYearText(MonthAbbr[m], y)) =>
          /\ calResult.raised = "none"
          /\ calResult.start = MkDate(y, m, 1)
          /\ calResult.end.year = y
          /\ calResult.end.month = m
          \* the day after the end is the first day of the next month
          /\ ToOrdinal(calResult.end) + 1
                = ToOrdinal(IF m = 12 THEN MkDate(y + 1, 1, 1) ELSE MkDate(y, m + 1, 1))
          /\ m = 2 =>
                calResult.end.day
                   = (IF y % 4 = 0 /\ (y % 100 # 0 \/ y % 400 = 0) THEN 29 ELSE 28)
          /\ (m = 2 /\ y = 2020) => calResult.end = MkDate(2020, 2, 29)
          /\ (m = 2 /\ y = 2021) => calResult.end = MkDate(2021, 2, 28)

\* feb-2020
C13_Witness ==
    /\ RangeDone
    /\ calText = <<"f", "e", "b", "-", "2", "0", "2", "0">>
    /\ calResult.start = MkDate(2020, 2, 1)
    /\ calResult.end = MkDate(2020, 2, 29)

\* C14: explicit_range takes the month-year form in any letter case
\* ("Feb-2020", "FEB-2020"): it gives the range of the lowercase text and
\* does not fail, as the quarter-year form takes "Q1-2023" and "q1-2023".
C14_MonthYearAnyCase ==
    (RangeDone /\ calText \in MonthYearTexts) =>
        /\ calResult.raised = "none"
        /\ calResult = convert_to_range(Lower(calText))

(***************************************************************************)
(* The Discourse report: properties.                                       *)
(***************************************************************************)
\* the places of the feed that hold an in-window action of the code
InWindowOfCode(code) ==
    { i \in 1..Len(dActions) :
        DiscInWindow(dActions[i]) /\ dActions[i].action_type = code }

\* the printed lines of one of the wordings
DLinesOf(wordings) == { i \in 1..Len(dOut) : dOut[i].line \in wordings }

RECURSIVE SumOfLines(_)
SumOfLines(places) ==
    IF places = {} THEN 0
    ELSE LET i == CHOOSE j \in places : TRUE
         IN  dOut[i].n + SumOfLines(places \ {i})

LikesLines == DLinesOf({"Liked 1 post.", "Liked posts."})
NewTopicsHeadings == DLinesOf({"Created 1 new topic:", "Created new topics:"})
NewTopicLines == DLinesOf({"- topic"})
RepliesHeadings == DLinesOf({"Wrote replies in topics:"})
ReplyLines == DLinesOf({"- replies in"})

\* the tallies and the report show N likes, M topics, T reply lines of sum K
TalliesShow(N, M, K, T) ==
    /\ dTally.total_liked = N
    /\ Len(dTally.new_topics) = M
    /\ Len(dTally.replies_by_topic) = T
    /\ SumCounts(dTally.replies_by_topic) = K
    /\ Cardinality(LikesLines) = 1
    /\ SumOfLines(LikesLines) = N
    /\ Cardinality(NewTopicLines) = M
    /\ Cardinality(ReplyLines) = T
    /\ SumOfLines(ReplyLines) = K

TalliesShowTheWindow ==
    LET replies == InWindowOfCode(REPLY)
    IN  TalliesShow(Cardinality(InWindowOfCode(LIKE)),
                    Cardinality(InWindowOfCode(NEW_TOPIC)),
                    Cardinality(replies),
                    Cardinality({ <<dActions[i].title, dActions[i].topic_id>> :
                                    i \in replies }))

\* C15 as stated: for every Discourse feed whose in-window actions are N
\* likes, M new topics and K replies over T distinct keys, the finished
\* tally and its report show N likes, M listed topics and T reply lines of
\* sum K; an action of another code changes none of the tallies.
C15_TalliesShowInWindowActions ==
    dPc = "done" => TalliesShowTheWindow

\* C15, amended: the same for every Discourse feed that is sorted
\* newest-first.
C15_SortedFeedTalliesShowInWindowActions ==
    (dPc = "done" /\ DiscSorted(dActions)) => TalliesShowTheWindow

\* a finished report of a like, a new topic and a reply in each of two
\* topics
C15_Witness ==
    /\ dPc = "done"
    /\ DiscSorted(dActions)
    /\ dTally.total_liked = 1
    /\ Len(dTally.new_topics) = 1
    /\ Cardinality(NewTopicLines) = 1
    /\ Len(dTally.replies_by_topic) = 2
    /\ Cardinality(ReplyLines) = 2

\* C16: each block of the Discourse report is left out when its tally is
\* empty: no new-topics block without a new topic, no replies block
\* without a reply, no likes block when the like count is zero.
C16_EmptyBlocksOmitted ==
    dPc = "done" =>
        /\ dTally.new_topics = <<>> =>
              (NewTopicsHeadings = {} /\ NewTopicLines = {})
        /\ dTally.replies_by_topic = <<>> =>
              (RepliesHeadings = {} /\ ReplyLines = {})
        /\ dTally.total_liked = 0 => LikesLines = {}

(***************************************************************************)
(* run_configuration: properties.                                          *)
(***************************************************************************)
ProbeFailed(made) ==
    made.what = "rate_limit" /\ made.result \in {"BadRequest", "RedirectionException"}

RunOver == runPc \in {"returned", "exited", "crashed"}

\* C17: when the rate_limit probe of a GitHub source fails with an auth
\* rejection or a redirect, Stop is raised and the process exits with code
\* 1; no search and no events walk of that source is made: nothing at all
\* is requested after the failed probe.
C17_FailedProbeStopsTheRun ==
    \A i \in 1..Len(runLog) :
       ProbeFailed(runLog[i]) =>
          /\ runPc = "exited"
          /\ runExit = 1
          /\ i = Len(runLog)
          /\ \A j \in 1..Len(runLog) :
                runLog[j].source = runLog[i].source =>
                   runLog[j].what \notin {"search", "events"}

\* the probe of the second github source is redirected: the first source
\* was looked up, the searches and events of the second are not
C17_Witness ==
    /\ runPc = "exited"
    /\ Len(runConfig.github) = 2
    /\ runConfig.github[2] = [search |-> 1, events |-> 1]
    /\ runLog[Len(runLog)] = Made(Step("rate_limit", 2), "RedirectionException")
    /\ \E j \in 1..Len(runLog) : runLog[j].what = "events" /\ runLog[j].source = 1

\* C18: apart from configuration and credential errors nothing aborts
\* sibling work: whatever kinds of events a GitHub feed holds (PublicEvent
\* and SponsorshipEvent included), every configured source is looked up
\* before the run is over.
C18_UnmodeledKindSparesSiblings ==
    (RunOver /\ \A i \in 1..Len(runLog) : ~ProbeFailed(runLog[i])) =>
        Len(runLog) = Len(Plan(runConfig))

(***************************************************************************)
(* lookup_local_git: properties.                                           *)
(***************************************************************************)
LgLinesOf(what, at) ==
    { k \in 1..Len(lgOut) : lgOut[k].line = what /\ lgOut[k].item = at }

LgFailed(item) == item.git /\ (item.stderr \/ item.returncode # 0)

\* C19: a repository whose git writes to stderr or exits non-zero gives
\* only a diagnostic comment: the loop goes on to every remaining item, the
\* lookup comes to its end, and "Nothing." is printed exactly when no
\* repository wrote anything to stdout.
C19_FailedRepositoryIsOnlyReported ==
    \* the lookup is never stuck before its end
    /\ lgPc \in {"start", "loop"} => ENABLED NextLocalGit
    \* every item taken so far that failed has its comment, with its code
    /\ lgPc \in {"loop", "done"} =>
          \A at \in 1..lgAt :
             /\ Cardinality(LgLinesOf("<!-- Encountered error:", at))
                   = (IF LgFailed(lgItems[at]) THEN 1 ELSE 0)
             /\ LgFailed(lgItems[at]) =>
                   \E k \in LgLinesOf("exited with code:", at) :
                      lgOut[k].code = lgItems[at].returncode
             /\ Cardinality(LgLinesOf("### name", at))
                   = (IF lgItems[at].git /\ lgItems[at].stdout THEN 1 ELSE 0)
    /\ lgPc = "done" =>
          /\ lgAt = Len(lgItems)
          /\ (LgLinesOf("Nothing.", 0) # {})
                <=> ~\E at \in 1..Len(lgItems) : lgItems[at].git /\ lgItems[at].stdout

\* the first repository exits non-zero without output, a later one writes
\* its log
C19_Witness ==
    /\ lgPc = "done"
    /\ Len(lgItems) >= 2
    /\ lgItems[1] = [git |-> TRUE, stderr |-> FALSE, returncode |-> 128, stdout |-> FALSE]
    /\ lgItems[Len(lgItems)].git /\ lgItems[Len(lgItems)].stdout
    /\ LgLinesOf("### name", Len(lgItems)) # {}
    /\ LgLinesOf("Nothing.", 0) = {}

(***************************************************************************)
(* The end of a walk: properties.                                          *)
(***************************************************************************)
GhNewer(h) == Dated(h) /\ EventDate(h) > until

\* an event newer than until does not end the GitHub walk
GhNewerGoesOn ==
    (ghRead >= 1 /\ GhNewer(ghEvents[ghRead])) => ghPc \notin {"stopped", "failed"}

\* an action newer than until does not end the Discourse walk
DiscNewerGoesOn ==
    (offset >= 1 /\ dActions[offset].day > until) => dPc # "done"

\* C20 as stated: in both walkers the first recognized item with date <
\* since that is consumed ends the walk: it is the last item consumed, so
\* nothing after it is handed downstream and no further page is requested;
\* an item with date > until never ends the walk.
C20_OlderItemEndsWalk ==
    /\ \A i \in 1..ghRead :
          GhOlder(ghEvents[i]) => (ghRead = i /\ ghPc = "stopped")
    /\ \A i \in 1..offset :
          dActions[i].day < since =>
             (offset = i /\ dPc = "done" /\ \A k \in 1..Len(dYielded) : dYielded[k] < i)
    /\ GhNewerGoesOn
    /\ DiscNewerGoesOn

\* C20, amended: the same for the first recognized item with date < since
\* that is not newer than until.
C20_OlderItemInsideUntilEndsWalk ==
    /\ \A i \in 1..ghRead :
          GhStops(ghEvents[i]) => (ghRead = i /\ ghPc = "stopped")
    /\ \A i \in 1..offset :
          (dActions[i].day < since /\ dActions[i].day <= until) =>
             (offset = i /\ dPc = "done" /\ \A k \in 1..Len(dYielded) : dYielded[k] < i)
    /\ GhNewerGoesOn
    /\ DiscNewerGoesOn

\* the Discourse walk ended at the last action of a page, with an action
\* inside the window left on the next page
C20_Witness ==
    /\ dPc = "done"
    /\ since <= until
    /\ dRead = dPage.size
    /\ offset < Len(dActions)
    /\ dActions[offset].day < since
    /\ DiscInWindow(dActions[Len(dActions)])
    /\ Len(dSent) = 1

(***************************************************************************)
(* The kinds of events: properties.                                        *)
(***************************************************************************)
RecognizedTypes == CreatedAtTypes \cup PayloadTypes

\* the day of the timestamp a recognized event is dated by
KindDay(h) == IF h.type \in PayloadTypes THEN h.payload_day ELSE h.created_day

IsRecognized(h) == h.type \in RecognizedTypes
IsNotNamed(h) == h.type \notin RecognizedTypes \cup UnsupportedTypes
IsRecognizedInWindow(h) == IsRecognized(h) /\ InWindow(KindDay(h))
IsIgnoringLine(l) == l.line = "<!-- ignoring -->"

\* C21: the kind of the event the GitHub walk reaches decides alone,
\* whatever its date: an event of a recognized kind goes to the date check
\* (it prints its line inside the window, ends the walk when older than
\* since); a PublicEvent or SponsorshipEvent aborts the walk, also outside
\* the window; an event of any other kind prints the ignored-kind marker
\* and no timeline line, and never ends the walk.
C21_KindAloneDecides ==
    ghPc \in {"walking", "stopped", "exhausted", "failed"} =>
        LET ignored == Select(ghEvents, ghRead, IsNotNamed)
            shown == Select(ghEvents, ghRead, IsRecognizedInWindow)
            markers == Select(ghOut, Len(ghOut), IsIgnoringLine)
        IN  /\ \A i \in 1..ghRead :
                  ghEvents[i].type \in UnsupportedTypes =>
                     (i = ghRead /\ ghPc = "failed")
            /\ ghPc = "failed" =>
                  (ghRead >= 1 /\ ghEvents[ghRead].type \in UnsupportedTypes)
            /\ [k \in 1..Len(markers) |-> ghOut[markers[k]]]
                  = [k \in 1..Len(ignored) |-> GhIgnoringLine(ghEvents[ignored[k]].type)]
            /\ GhTimeline
                  = [k \in 1..Len(shown) |->
                       GhEventLine(ghEvents[shown[k]].type, KindDay(ghEvents[shown[k]]))]
            /\ \A i \in 1..ghRead :
                  (IsRecognized(ghEvents[i]) /\ KindDay(ghEvents[i]) < since
                      /\ KindDay(ghEvents[i]) <= until)
                     => (i = ghRead /\ ghPc = "stopped")
            /\ ghPc = "stopped" =>
                  /\ ghRead >= 1
                  /\ IsRecognized(ghEvents[ghRead])
                  /\ KindDay(ghEvents[ghRead]) < since

\* an event of a kind the chain does not name, dated before since, was
\* ignored and the walk went on to a SponsorshipEvent dated after until
C21_Witness ==
    /\ ghPc = "failed"
    /\ ghRead = 2
    /\ ghEvents[1] = [type |-> "WatchEvent", created_day |-> 0, payload_day |-> 0]
    /\ ghEvents[2].type = "SponsorshipEvent"
    /\ ghEvents[2].created_day > until
    /\ \E k \in 1..Len(ghOut) : ghOut[k] = GhIgnoringLine("WatchEvent")

(***************************************************************************)
(* The pages of the Discourse walk: properties.                            *)
(***************************************************************************)
\* how many actions the first k pages held
RECURSIVE Received(_)
Received(k) == IF k = 0 THEN 0 ELSE Received(k - 1) + dSent[k].size

\* the places of the feed the walk has read: those of the full pages and
\* those read of the page at hand
PlacesRead == Received(Len(dSent) - 1) + dRead

DiscPresent(h) == since <= h.day /\ h.day <= until

\* C22: each page request of the Discourse walk carries as its offset the
\* number of actions received in all earlier pages (those skipped as newer
\* included), the first one 0; a page is requested only when every action
\* of the page before is consumed; so the actions handed to the tally are
\* those inside the window among the places read, each once and in order.
C22_OffsetCountsActionsReceived ==
    dPc \in {"request", "page", "done"} =>
        /\ \A k \in 1..Len(dSent) : dSent[k].offset = Received(k - 1)
        /\ Len(dSent) >= 1 => dSent[1].offset = 0
        /\ dPc = "request" => offset = Received(Len(dSent))
        /\ Len(dSent) >= 1 => offset = PlacesRead
        /\ LET last == IF dPc = "done" THEN PlacesRead - 1 ELSE PlacesRead
           IN  dYielded = Select(dActions, IF Len(dSent) = 0 THEN 0 ELSE last,
                                 DiscPresent)

\* the second page was asked at offset 2, after a first page whose first
\* action was skipped as newer; actions of both pages reached the tally
C22_Witness ==
    /\ Len(dSent) = 2
    /\ dSent[2] = [offset |-> 2, size |-> 1]
    /\ dActions[1].day > until
    /\ dYielded = <<2, 3>>

====
